---- MODULE Spec2Model ----
(***************************************************************************)
(* SuperPalmTree: the planning/execution agent (src/src/agent.py), the     *)
(* ARIA-snapshot browser driver (src/src/browser_tool.py) and the three    *)
(* model-server supervisors (agent.py, main.py, runtime.py).               *)
(*                                                                         *)
(* Texts are sequences of tokens.  A token is a record [k, doc]: k names   *)
(* the kind of text ("ws" whitespace, "x" prose, "fence_json" the literal  *)
(* ```json, "fence" the literal ```, "SUCCESS", "Error:", "json" a         *)
(* complete JSON document) and doc is the decoded document of a "json"     *)
(* token.  An optional value (Python None or a value) is a sequence of     *)
(* length 0 or 1.                                                          *)
(***************************************************************************)
EXTENDS Integers, Sequences, FiniteSets, TLC

\* ------------------------------------------------------------------ bounds
\* longest "steps" array the model server is made to return
MaxSteps == 2

\* ------------------------------------------------------ sequence helpers
Range(s) == {s[i] : i \in 1..Len(s)}

SeqsUpTo(S, n) == UNION {[1..k -> S] : k \in 0..n}

\* index of the first token of s whose kind is in K, 0 when there is none
FirstIn(s, K) ==
    IF \E i \in 1..Len(s) : s[i].k \in K
    THEN CHOOSE i \in 1..Len(s) : s[i].k \in K /\ \A j \in 1..(i - 1) : s[j].k \notin K
    ELSE 0

\* index of the first token of s whose kind is not in K, 0 when there is none
FirstNotIn(s, K) ==
    IF \E i \in 1..Len(s) : s[i].k \notin K
    THEN CHOOSE i \in 1..Len(s) : s[i].k \notin K /\ \A j \in 1..(i - 1) : s[j].k \in K
    ELSE 0

\* --------------------------------------------------------- JSON documents
RequiredKeys == {"step_num", "tool", "params", "purpose", "estimated_seconds"}
OptionalKeys == {"status", "result", "started_at", "completed_at"}

\* one element of the "steps" array as the model server may write it
\* (step_num is whatever the server wrote; status is the value of the
\* "status" key when the server wrote one)
GoodStep ==
    [isDict |-> TRUE, keys |-> RequiredKeys, step_num |-> 1,
     tool |-> "browser_navigate", status |-> "pending"]
ShellStep ==
    [isDict |-> TRUE, keys |-> RequiredKeys, step_num |-> 2,
     tool |-> "shell_command", status |-> "pending"]
PresetStep ==
    [isDict |-> TRUE, keys |-> RequiredKeys \cup {"status"}, step_num |-> 1,
     tool |-> "file_read", status |-> "completed"]
MissingStep ==
    [isDict |-> TRUE, keys |-> RequiredKeys \ {"purpose"}, step_num |-> 1,
     tool |-> "browser_click", status |-> "pending"]
ExtraStep ==
    [isDict |-> TRUE, keys |-> RequiredKeys \cup {"selector"}, step_num |-> 2,
     tool |-> "browser_click", status |-> "pending"]
NonDictStep ==
    [isDict |-> FALSE, keys |-> {}, step_num |-> 0, tool |-> "", status |-> "pending"]

StepDatas == {GoodStep, ShellStep, PresetStep, MissingStep, ExtraStep, NonDictStep}

\* a decoded JSON document: an object (with or without "task_summary", with
\* "steps" missing, not a list, or a list) or a value that is no object
NoDoc == [isObject |-> FALSE, hasSummary |-> FALSE, stepsKind |-> "missing", steps |-> <<>>]

Docs ==
    {NoDoc}
    \cup {[isObject |-> TRUE, hasSummary |-> h, stepsKind |-> k, steps |-> <<>>] :
              h \in BOOLEAN, k \in {"missing", "notlist"}}
    \cup {[isObject |-> TRUE, hasSummary |-> h, stepsKind |-> "list", steps |-> s] :
              h \in BOOLEAN, s \in SeqsUpTo(StepDatas, MaxSteps)}

\* ------------------------------------------------------------------ texts
Tok(k)      == [k |-> k, doc |-> NoDoc]
JsonTok(d)  == [k |-> "json", doc |-> d]

\* the tokens in which "```json" occurs, those in which "```" occurs, and
\* whitespace
FenceJson == {"fence_json"}
Fence     == {"fence", "fence_json"}
Ws        == {"ws"}

\* str.startswith("Error:")
StartsWithError(s) == Len(s) >= 1 /\ s[1].k = "Error:"

\* the words of a text in which the substring "SUCCESS" occurs
SuccessWords == {"SUCCESS", "UNSUCCESSFUL"}

\* the test that ignores case: "success" counts too
ContainsSuccess_ignoring_case(s) ==
    \E i \in 1..Len(s) : s[i].k \in SuccessWords \cup {"success"}

\* "SUCCESS" in s
ContainsSuccess(s) == \E i \in 1..Len(s) : s[i].k \in SuccessWords

\* s.split(delim)[1].split("```")[0] where delim occurs in s: what follows
\* the first delimiter, cut before the next ``` (the literal ```json
\* begins with ``` and ends a segment too)
FencedSegment(s, delim) ==
    LET open  == FirstIn(s, delim)
        after == SubSeq(s, open + 1, Len(s))
        close == FirstIn(after, Fence)
    IN IF close = 0 THEN after ELSE SubSeq(after, 1, close - 1)

\* str.strip()
Strip(s) ==
    LET first == FirstNotIn(s, Ws)
    IN IF first = 0 THEN <<>>
       ELSE LET last == CHOOSE i \in first..Len(s) :
                            s[i].k \notin Ws /\ \A j \in (i + 1)..Len(s) : s[j].k \in Ws
            IN SubSeq(s, first, last)

\* json.loads(s): [ok, doc]; decoding succeeds when the text is one complete
\* JSON document and nothing else
json_loads(s) ==
    IF Len(s) = 1 /\ s[1].k = "json"
    THEN [ok |-> TRUE, doc |-> s[1].doc]
    ELSE [ok |-> FALSE, doc |-> NoDoc]

\* ----------------------------------------------------------- Prompt Bridge
\* what the HTTP call to the model server can do: answer with a status and
\* a body (a JSON object carrying the text, a JSON object without the text
\* field, a body that is no JSON, a JSON value that is no object), fail to
\* connect, or time out
Outcome(kind, status, body, text) ==
    [kind |-> kind, status |-> status, body |-> body, text |-> text]

HttpStatuses == {200, 404, 500}
BodyKinds    == {"text", "no_field", "not_json", "non_object"}

OutcomesOver(texts) ==
    {Outcome("conn_error", 0, "not_json", <<>>), Outcome("timeout", 0, "not_json", <<>>)}
    \cup {Outcome("http", st, b, <<>>) :
              st \in HttpStatuses, b \in BodyKinds \ {"text"}}
    \cup {Outcome("http", st, "text", t) : st \in HttpStatuses, t \in texts}

\* the call failed: no connection, timeout, a status other than 200, or a
\* body from which the text cannot be taken
CallFailed(o) ==
    \/ o.kind # "http"
    \/ o.status # 200
    \/ o.body \in {"not_json", "non_object"}

ErrorText == <<Tok("Error:"), Tok("x")>>

\* chat with response.json() moved out of the try block: a body that cannot
\* be decoded escapes to the caller
chat_decode_unguarded(o) ==
    IF o.kind # "http"
    THEN [ret |-> ErrorText, raised |-> FALSE, requests |-> 1]
    ELSE IF o.status = 200
         THEN IF o.body = "text"
              THEN [ret |-> o.text, raised |-> FALSE, requests |-> 1]
              ELSE IF o.body = "no_field"
                   THEN [ret |-> <<>>, raised |-> FALSE, requests |-> 1]
                   ELSE [ret |-> <<>>, raised |-> TRUE, requests |-> 1]
         ELSE [ret |-> ErrorText, raised |-> FALSE, requests |-> 1]

\* SuperPalmTree.chat: [ret, raised, requests]
chat(o) ==
    IF o.kind # "http"
    THEN \* requests.post raised: except Exception -> f"Error: {e}"
         [ret |-> ErrorText, raised |-> FALSE, requests |-> 1]
    ELSE IF o.status = 200
         THEN IF o.body = "text"
              THEN [ret |-> o.text, raised |-> FALSE, requests |-> 1]
              ELSE IF o.body = "no_field"
                   THEN \* .get("response", "")
                        [ret |-> <<>>, raised |-> FALSE, requests |-> 1]
                   ELSE \* response.json() or .get raised inside the try
                        [ret |-> ErrorText, raised |-> FALSE, requests |-> 1]
         ELSE \* f"Error: HTTP {response.status_code}"
              [ret |-> ErrorText, raised |-> FALSE, requests |-> 1]

\* OllamaManager.chat: urlopen raises on every status but 200, and the whole
\* body of the method is inside try/except Exception
manager_chat(o) ==
    IF o.kind = "http" /\ o.status = 200 /\ o.body = "text"
    THEN [ret |-> o.text, raised |-> FALSE, requests |-> 1]
    ELSE IF o.kind = "http" /\ o.status = 200 /\ o.body = "no_field"
         THEN \* .get("message", {}).get("content", "No response")
              [ret |-> <<Tok("x")>>, raised |-> FALSE, requests |-> 1]
         ELSE [ret |-> ErrorText, raised |-> FALSE, requests |-> 1]

\* ------------------------------------------------------------ TaskStep/Plan
None == <<>>
Some(v) == <<v>>

Requests == {"open example.com", "list files"}

\* TaskStep(**step_data): the dataclass constructor raises TypeError when the
\* argument is no mapping, a required field is missing or a key is unknown
StepBuilds(d) ==
    /\ d.isDict
    /\ RequiredKeys \subseteq d.keys
    /\ d.keys \subseteq RequiredKeys \cup OptionalKeys

TaskStep(d) ==
    [step_num     |-> d.step_num,
     tool         |-> d.tool,
     params       |-> <<"url", "https://example.com">>,
     purpose      |-> "Navigate to website",
     estimated_seconds |-> 5,
     status       |-> IF "status" \in d.keys THEN d.status ELSE "pending",
     result       |-> None,
     started_at   |-> None,
     completed_at |-> None]

\* the except branch of create_plan
FallbackPlan(user_request) ==
    [task_summary   |-> user_request,
     estimated_time |-> "5 minutes",
     steps          |-> << [step_num     |-> 1,
                            tool         |-> "shell_command",
                            params       |-> <<"cmd", "echo 'Processing: ", user_request, "'">>,
                            purpose      |-> "Process request",
                            estimated_seconds |-> 5,
                            status       |-> "pending",
                            result       |-> None,
                            started_at   |-> None,
                            completed_at |-> None] >>,
     fallback_plan  |-> "Execute directly"]

\* the text handed to json.loads: the fenced segment when the response
\* holds a fence, the whole response otherwise, stripped
ExtractJson(response) ==
    Strip(IF FirstIn(response, FenceJson) # 0
          THEN FencedSegment(response, FenceJson)
          ELSE IF FirstIn(response, Fence) # 0
               THEN FencedSegment(response, Fence)
               ELSE response)

\* the try block of create_plan raises: json.loads fails, plan_data has no
\* .get, "steps" cannot be iterated, or a TaskStep cannot be built
ParseFails(response) ==
    LET parsed == json_loads(ExtractJson(response))
    IN \/ ~parsed.ok
       \/ ~parsed.doc.isObject
       \/ parsed.doc.stepsKind = "notlist"
       \/ \E i \in 1..Len(parsed.doc.steps) : ~StepBuilds(parsed.doc.steps[i])

\* create_plan without the except branch's single step
create_plan_empty_fallback(user_request, response) ==
    IF ParseFails(response)
    THEN [FallbackPlan(user_request) EXCEPT !.steps = <<>>]
    ELSE LET plan_data == json_loads(ExtractJson(response)).doc
         IN [task_summary   |-> IF plan_data.hasSummary THEN "Brief description"
                                ELSE "Unknown task",
             estimated_time |-> "Unknown",
             steps          |-> [i \in 1..Len(plan_data.steps) |-> TaskStep(plan_data.steps[i])],
             fallback_plan  |-> "Ask user for help"]

\* SuperPalmTree.create_plan, given the text chat returned
create_plan(user_request, response) ==
    IF ParseFails(response)
    THEN FallbackPlan(user_request)
    ELSE LET plan_data == json_loads(ExtractJson(response)).doc
         IN [task_summary   |-> IF plan_data.hasSummary THEN "Brief description"
                                ELSE "Unknown task",
             estimated_time |-> "Unknown",
             steps          |-> [i \in 1..Len(plan_data.steps) |-> TaskStep(plan_data.steps[i])],
             fallback_plan  |-> "Ask user for help"]

\* the texts the model server is made to answer a planning prompt with:
\* prose, an opening fence, a body, a closing fence, prose.  The body is a
\* JSON document alone, between blanks, or after prose; or prose; or nothing
Proses     == {<<>>, <<Tok("x")>>}
OpenFences == {<<>>, <<Tok("fence_json")>>, <<Tok("fence")>>}
CloseFences == {<<>>, <<Tok("fence")>>}
BodyShapes == {"json", "padded", "after_prose", "prose", "empty"}

PlannerBody(shape, d) ==
    IF shape = "json" THEN <<JsonTok(d)>>
    ELSE IF shape = "padded" THEN <<Tok("ws"), JsonTok(d), Tok("ws")>>
    ELSE IF shape = "after_prose" THEN <<Tok("x"), JsonTok(d)>>
    ELSE IF shape = "prose" THEN <<Tok("x")>>
    ELSE <<>>

PlannerResponse(pre, open, shape, d, close, post) ==
    pre \o open \o PlannerBody(shape, d) \o close \o post

\* the texts the model server is made to answer an execution prompt with
ExecutorResponses ==
    {<<>>, <<Tok("x")>>, <<Tok("SUCCESS")>>, <<Tok("x"), Tok("SUCCESS"), Tok("x")>>,
     <<Tok("x"), Tok("FAILED")>>, <<Tok("UNSUCCESSFUL")>>, <<Tok("success")>>}

\* SuperPalmTree.execute_step, given the text chat returned: the step after
\* the call (the return value is status = "completed")
execute_step(step, response) ==
    [step EXCEPT !.started_at   = Some("now"),
                 !.result       = Some(response),
                 !.status       = IF ContainsSuccess(response) THEN "completed" ELSE "failed",
                 !.completed_at = Some("now")]

\* return step.status == "completed"
execute_step_returns(step) == step.status = "completed"

\* for step in plan.steps: what one iteration of execute_plan executes (the
\* indexes of plan.steps passed to execute_step, in order), the counter
\* after it, and the index the loop goes to next
iteration_runs_retry(i, ok) == IF ok THEN <<i>> ELSE <<i, i>>

iteration_runs(i, ok) == <<i>>

count_after_always(success_count, ok) == success_count + 1

count_after(success_count, ok) == IF ok THEN success_count + 1 ELSE success_count

\* return success_count == len(plan.steps)
execute_plan_returns(success_count, n) == success_count = n

\* ========================================================= Browser Driver
\* Strings handled character by character (refs, selectors) are sequences
\* of one-character strings.
Digits == <<"0", "1", "2", "3", "4", "5", "6", "7", "8", "9">>

IsDigitChar(c) == \E d \in 1..10 : Digits[d] = c

\* str(n) for n >= 0
RECURSIVE IntToStr(_)
IntToStr(n) ==
    IF n < 10 THEN <<Digits[n + 1]>>
    ELSE IntToStr(n \div 10) \o <<Digits[(n % 10) + 1]>>

\* str.isdigit(): non-empty and all characters digits
isdigit(s) == Len(s) >= 1 /\ \A i \in 1..Len(s) : IsDigitChar(s[i])

\* ref_or_selector.startswith("e") and ref_or_selector[1:].isdigit()
looks_like_ref(a) == Len(a) >= 1 /\ a[1] = "e" /\ isdigit(Tail(a))

\* the pages the browser can show.  Texts are token sequences (a text of
\* whitespace only is what text.strip() rejects); a textbox is given by its
\* placeholder (None when it has none)
Text(w) == <<Tok(w)>>
Padded(w) == <<Tok("ws"), Tok(w), Tok("ws")>>

BlankPage ==
    [links |-> <<>>, buttons |-> <<>>, textboxes |-> <<>>,
     loginText |-> FALSE, passwordInput |-> FALSE]

ExamplePage ==
    [links |-> <<Padded("More information...")>>, buttons |-> <<>>, textboxes |-> <<>>,
     loginText |-> FALSE, passwordInput |-> FALSE]

LoginPage ==
    [links |-> <<Text("Forgot password?"), <<Tok("ws")>> >>,
     buttons |-> << <<>>, Text("Sign in")>>,
     textboxes |-> <<Some(Text("Username")), None>>,
     loginText |-> TRUE, passwordInput |-> TRUE]

\* number of links on the listing page
MaxLinks == 8

ListPage ==
    [links |-> [i \in 1..MaxLinks |-> Text("Item")], buttons |-> <<Text("Next")>>,
     textboxes |-> <<Some(Text("Search"))>>,
     loginText |-> TRUE, passwordInput |-> FALSE]

\* the site each host serves
Hosts == {"example.com", "accounts.example.com", "list.example.com"}

PageOf(host) ==
    IF host = "" THEN BlankPage
    ELSE IF host = "example.com" THEN ExamplePage
    ELSE IF host = "accounts.example.com" THEN LoginPage
    ELSE ListPage

\* URLs are the characters of a prefix (possibly none) followed by a host;
\* <<>> is the empty string
Http  == <<"h", "t", "t", "p", ":", "/", "/">>
Https == <<"h", "t", "t", "p", "s", ":", "/", "/">>

UrlPrefixes == {Https, Http, <<"H", "T", "T", "P", ":", "/", "/">>}

Urls == {<<h>> : h \in Hosts}
        \cup {pre \o <<"example.com">> : pre \in UrlPrefixes}
        \cup {<<>>}

HostOf(url) == IF url = <<>> THEN "" ELSE url[Len(url)]

\* str.startswith(prefix)
startswith(s, prefix) ==
    Len(s) >= Len(prefix) /\ SubSeq(s, 1, Len(prefix)) = prefix

\* the prefix test that looks for "https://" only
with_scheme_https_only(url) ==
    IF startswith(url, Https) THEN url ELSE Https \o url

\* if not url.startswith(("http://", "https://")): url = "https://" + url
with_scheme(url) ==
    IF startswith(url, Http) \/ startswith(url, Https) THEN url ELSE Https \o url

\* the live handle of an element: the host whose page it is on, its role and
\* its position among the elements of that role
Locator(host, role, i) == [host |-> host, role |-> role, i |-> i]

NoLocator == Locator("", "", 0)

\* the elements snapshot() issues refs for, in issuance order: links with
\* text, buttons with text, every textbox; each [role, name, locator]
RECURSIVE WithText(_, _, _, _)
WithText(host, role, texts, i) ==
    IF i > Len(texts) THEN <<>>
    ELSE (IF Strip(texts[i]) # <<>>
          THEN << [role |-> role, name |-> Strip(texts[i]), locator |-> Locator(host, role, i)] >>
          ELSE <<>>)
         \o WithText(host, role, texts, i + 1)

Textboxes(host, boxes) ==
    [i \in 1..Len(boxes) |->
        [role |-> "textbox",
         name |-> IF boxes[i] = None THEN Text("input") ELSE boxes[i][1],
         locator |-> Locator(host, "textbox", i)]]

Candidates(host, page) ==
    WithText(host, "link", page.links, 1)
    \o WithText(host, "button", page.buttons, 1)
    \o Textboxes(host, page.textboxes)

\* ElementRef as _add_ref leaves it: selector "" and the locator attached
ElementRef(ref, role, name, locator) ==
    [ref |-> ref, role |-> role, name |-> name, selector |-> <<>>, locator |-> locator]

\* self.element_refs is a dict: a set of ElementRef with distinct .ref
Keys(element_refs) == {e.ref : e \in element_refs}

\* self.element_refs.get(a), for a key a
Get(element_refs, a) == CHOOSE e \in element_refs : e.ref = a

\* self.element_refs[ref] = entry
Put(element_refs, entry) == {e \in element_refs : e.ref # entry.ref} \cup {entry}

\* _add_ref on the driver state d = [element_refs, ref_counter, issued]
\* (issued: the refs returned so far by the running snapshot)
add_ref_no_increment(d, role, name, locator) ==
    LET ref == <<"e">> \o IntToStr(d.ref_counter + 1)
    IN [element_refs |-> Put(d.element_refs, ElementRef(ref, role, name, locator)),
        ref_counter  |-> d.ref_counter,
        issued       |-> Append(d.issued, ref)]

add_ref(d, role, name, locator) ==
    LET counter == d.ref_counter + 1
        ref == <<"e">> \o IntToStr(counter)
    IN [element_refs |-> Put(d.element_refs, ElementRef(ref, role, name, locator)),
        ref_counter  |-> counter,
        issued       |-> Append(d.issued, ref)]

\* the loops of snapshot() over the first k candidates
RECURSIVE AddRefs(_, _, _)
AddRefs(d, cands, k) ==
    IF k = 0 THEN d
    ELSE LET before == AddRefs(d, cands, k - 1)
         IN add_ref(before, cands[k].role, cands[k].name, cands[k].locator)

\* self.element_refs.clear(); self._ref_counter = 0
ClearedRefs == [element_refs |-> {}, ref_counter |-> 0, issued |-> <<>>]

\* click/type_text, lines "if ref_or_selector.startswith..." to the else
\* branch: [go, selector]; go is FALSE where the method returns False
resolve_any_e(element_refs, a) ==
    IF Len(a) >= 1 /\ a[1] = "e"
    THEN IF a \in Keys(element_refs)
         THEN [go |-> TRUE, selector |-> Get(element_refs, a).selector]
         ELSE [go |-> FALSE, selector |-> <<>>]
    ELSE [go |-> TRUE, selector |-> a]

resolve(element_refs, a) ==
    IF looks_like_ref(a)
    THEN IF a \in Keys(element_refs)
         THEN [go |-> TRUE, selector |-> Get(element_refs, a).selector]
         ELSE [go |-> FALSE, selector |-> <<>>]
    ELSE [go |-> TRUE, selector |-> a]

\* the arguments click and type_text are called with
Args ==
    {<<"e">> \o IntToStr(n) : n \in {1, MaxLinks + 2, MaxLinks + 3}}
    \cup {<<"e">>, <<"e", "1", "x">>, <<"e", "0", "1">>, <<"#", "g", "o">>, <<>>}

\* where a failing snapshot() stops: after no ref, after one ref
SnapshotFailPoints == {0, 1}

\* the keys press is called with, scroll's directions and amounts, and
\* screenshot's paths (<<>> is the default None)
PressKeys == {<<"Enter">>}
Directions == {"down", "up"}
Amounts == {500}
ScreenshotPaths == {<<>>, <<"shot.png">>}

\* delta = amount if direction == "down" else -amount
scroll_delta(direction, amount) == IF direction = "down" THEN amount ELSE 0 - amount

\* the calls of each operation that can raise and stand inside the
\* operation's try ... except Exception block
Guarded ==
    {<<"start", c>> : c \in {"import", "playwright", "launch", "new_page"}}
    \cup {<<"stop", c>> : c \in {"page", "context", "browser", "playwright"}}
    \cup {<<"navigate", "goto">>, <<"snapshot", "get_by_role">>, <<"click", "click">>,
          <<"type_text", "fill">>, <<"screenshot", "screenshot">>,
          <<"press", "keyboard.press">>, <<"scroll", "mouse.wheel">>}

\* scroll without its try block
propagates_scroll_unguarded(op, call) == <<op, call>> \notin Guarded \/ op = "scroll"

\* an exception raised by call inside op leaves op
propagates(op, call) == <<op, call>> \notin Guarded

\* the arguments type_text is called with: a ref the list page issues, a
\* ref no page issues, a selector
TypeArgs == {<<"e", "1">>, <<"e">> \o IntToStr(MaxLinks + 3), <<"#", "g", "o">>}

\* ================================================= Model Server Supervisor
\* the three start operations: SuperPalmTree.start_ollama ("agent"),
\* OllamaManager.start ("manager"), Runtime.start_ollama ("runtime")
Variants == {"agent", "manager", "runtime"}

\* for i in range(30)
PollAttempts == 30

\* what a start call does after its first probe of the endpoint:
\* [pc, ret, launched, phase, progress].  reachable: the first probe
\* succeeded; binary: get_ollama_binary found the bundled binary (manager
\* only); popen_raises: subprocess.Popen raised instead of returning a process
start_decision_always_launch(variant, reachable, binary, popen_raises) ==
    IF variant = "manager" /\ ~binary
    THEN [pc |-> "done", ret |-> "false", launched |-> FALSE,
          phase |-> "error", progress |-> 0]
    ELSE IF popen_raises
         THEN [pc |-> "done", ret |-> IF variant = "manager" THEN "false" ELSE "raised",
               launched |-> FALSE, phase |-> "error", progress |-> 0]
         ELSE [pc |-> "polling", ret |-> "none", launched |-> TRUE,
               phase |-> "starting_ollama", progress |-> 10]

start_decision(variant, reachable, binary, popen_raises) ==
    IF reachable
    THEN [pc |-> "done", ret |-> "true", launched |-> FALSE,
          phase |-> "running", progress |-> 100]
    ELSE IF variant = "manager" /\ ~binary
         THEN \* "Bundled Ollama binary not found": return False
              [pc |-> "done", ret |-> "false", launched |-> FALSE,
               phase |-> "error", progress |-> 0]
         ELSE IF popen_raises
              THEN \* Popen raised: caught in OllamaManager.start only
                   [pc |-> "done", ret |-> IF variant = "manager" THEN "false" ELSE "raised",
                    launched |-> FALSE, phase |-> "error", progress |-> 0]
              ELSE [pc |-> "polling", ret |-> "none", launched |-> TRUE,
                    phase |-> "starting_ollama", progress |-> 10]

\* the calls a shutdown makes on the process handle, in order
\* (OllamaManager.stop: terminate, wait(timeout=5), kill when the wait
\* raised; cleanup and Runtime.stop: terminate)
shutdown_signals(variant, has_process, wait_completes) ==
    IF ~has_process THEN <<>>
    ELSE IF variant = "manager"
         THEN IF wait_completes THEN <<"terminate", "wait">>
              ELSE <<"terminate", "wait", "kill">>
         ELSE <<"terminate">>

\* int(downloaded * 100 / total) as _download_model may compute it: a total
\* below zero, a download half through, a body longer than Content-Length
Percents == {0 - 20, 50, 250}

\* self.progress = max(35, min(90, percent))
download_progress(percent) ==
    LET capped == IF percent < 90 THEN percent ELSE 90
    IN IF capped > 35 THEN capped ELSE 35

\* if self.progress < 40: self.progress = 40
prepare_progress(p) == IF p < 40 THEN 40 ELSE p

\* how ensure_model begins: the model file is bundled, or it is missing and
\* _download_model starts, or the mkdir of _download_model raises
ModelFiles == {"bundled", "missing", "mkdir_raises"}

\* how ensure_model ends once the model file is there: Modelfile cannot be
\* written, no bundled binary, subprocess.run raises (timeout, OSError),
\* `ollama create` exits with 0 or with another code
PrepareOutcomes == {"write_raises", "no_binary", "run_raises", "created", "create_failed"}

\* ensure_model from the write of the Modelfile on: [ret, phase, progress,
\* model_ready], given the fields when it gets there
ensure_model_finish(outcome, ph, p, ready) ==
    IF outcome = "created"
    THEN [ret |-> "true", phase |-> "ready", progress |-> 100, model_ready |-> TRUE]
    ELSE IF outcome = "create_failed"
         THEN [ret |-> "false", phase |-> "error", progress |-> 0, model_ready |-> ready]
         ELSE IF outcome = "no_binary"
              THEN \* if not ollama_path: return False
                   [ret |-> "false", phase |-> ph, progress |-> p, model_ready |-> ready]
              ELSE [ret |-> "raised", phase |-> ph, progress |-> p, model_ready |-> ready]

\* ======================================================= Hardware Profiler
\* installed RAM is counted in 1/RamUnitsPerGB of a GiB, up to MaxRamGB GiB
RamUnitsPerGB == 4
MaxRamGB == 20

\* psutil.virtual_memory().total
RamTotals == 0..(MaxRamGB * RamUnitsPerGB)

\* SuperPalmTree.detect_hardware ("agent") and main.detect_hardware ("main")
Profilers == {"agent", "main"}

\* ram_gb >= n, for ram_gb = total / 1024**3
AtLeastGB(total, n) == total >= n * RamUnitsPerGB

\* the thresholds compared with > instead of >=
detect_hardware_strict(variant, total) ==
    IF total > 16 * RamUnitsPerGB
    THEN [model |-> "qwen3:8b", context_size |-> 32768]
    ELSE IF total > 8 * RamUnitsPerGB
         THEN [model |-> "qwen3:4b", context_size |-> 16384]
         ELSE IF variant = "agent" /\ total <= 4 * RamUnitsPerGB
              THEN [model |-> "qwen3:0.6b", context_size |-> 4096]
              ELSE [model |-> "qwen3:1.7b", context_size |-> 8192]

\* detect_hardware: the model and context size chosen for the RAM
detect_hardware(variant, total) ==
    IF AtLeastGB(total, 16)
    THEN [model |-> "qwen3:8b", context_size |-> 32768]
    ELSE IF AtLeastGB(total, 8)
         THEN [model |-> "qwen3:4b", context_size |-> 16384]
         ELSE IF variant = "agent" /\ ~AtLeastGB(total, 4)
              THEN [model |-> "qwen3:0.6b", context_size |-> 4096]
              ELSE [model |-> "qwen3:1.7b", context_size |-> 8192]

\* ================================================================ Web API
\* a POST /api/chat request: a JSON object with "message", one without it,
\* no Content-Length header, a body that is no JSON, a JSON value that is
\* no object
ChatRequests == {"message", "no_message", "no_length", "bad_json", "non_object"}

\* the try block of handle_chat raises before the manager is looked up
Unreadable(request) == request \in {"no_length", "bad_json", "non_object"}

NotReadyText == <<Tok("Error:"), Tok("Model not ready")>>

\* the handler that forwards whenever a manager is attached
handle_chat_ignoring_ready(request, has_ollama, ready, o) ==
    IF Unreadable(request)
    THEN [status |-> 500, key |-> "error", text |-> <<Tok("x")>>, forwarded |-> FALSE]
    ELSE IF has_ollama
         THEN [status |-> 200, key |-> "response", text |-> manager_chat(o).ret,
               forwarded |-> TRUE]
         ELSE [status |-> 200, key |-> "response", text |-> NotReadyText,
               forwarded |-> FALSE]

\* APIHandler.handle_chat: the reply [status, key, text] and whether
\* ollama.chat was called; o is the outcome of the call to the model server
handle_chat(request, has_ollama, ready, o) ==
    IF Unreadable(request)
    THEN \* except Exception: 500, {"error": str(e)}
         [status |-> 500, key |-> "error", text |-> <<Tok("x")>>, forwarded |-> FALSE]
    ELSE IF has_ollama /\ ready
         THEN IF manager_chat(o).raised
              THEN [status |-> 500, key |-> "error", text |-> <<Tok("x")>>,
                    forwarded |-> TRUE]
              ELSE [status |-> 200, key |-> "response", text |-> manager_chat(o).ret,
                    forwarded |-> TRUE]
         ELSE [status |-> 200, key |-> "response", text |-> NotReadyText,
               forwarded |-> FALSE]

\* ======================================================= Interactive loop
\* the run_task calls one run of main may make
MaxTasks == 3

\* the lines input() returns, as characters
Lines ==
    {<<"e", "x", "i", "t">>, <<" ", "E", "x", "i", "t", " ">>, <<"Q", "U", "I", "T">>,
     <<"q">>, <<"Q", " ">>, <<>>, <<" ", " ">>, <<"e", "x", "i", "t", " ", "q">>,
     <<"h", "i">>, <<"q", "u">>, <<"e", "x", "i", "t", "s">>, <<" ", "q", "u", "I", "t">>}

\* str.lower() of one character
lower_char(c) ==
    IF c = "E" THEN "e" ELSE IF c = "X" THEN "x" ELSE IF c = "I" THEN "i"
    ELSE IF c = "T" THEN "t" ELSE IF c = "Q" THEN "q" ELSE IF c = "U" THEN "u"
    ELSE IF c = "H" THEN "h" ELSE c

\* str.lower()
lower(s) == [i \in 1..Len(s) |-> lower_char(s[i])]

\* str.strip()
strip(s) ==
    IF \A i \in 1..Len(s) : s[i] = " " THEN <<>>
    ELSE LET first == CHOOSE i \in 1..Len(s) :
                          s[i] # " " /\ \A j \in 1..(i - 1) : s[j] = " "
             last  == CHOOSE i \in 1..Len(s) :
                          s[i] # " " /\ \A j \in (i + 1)..Len(s) : s[j] = " "
         IN SubSeq(s, first, last)

\* ['exit', 'quit', 'q']
ExitWords == {<<"e", "x", "i", "t">>, <<"q", "u", "i", "t">>, <<"q">>}

\* the loop body that compares without lower()
loop_decision_case_sensitive(line) ==
    LET user_input == strip(line)
    IN IF user_input = <<>> THEN "continue"
       ELSE IF user_input \in ExitWords THEN "break"
       ELSE "run_task"

\* the body of run_interactive's loop for a line read: "continue", "break"
\* or "run_task"
loop_decision(line) ==
    LET user_input == strip(line)
    IN IF user_input = <<>> THEN "continue"
       ELSE IF lower(user_input) \in ExitWords THEN "break"
       ELSE "run_task"

\* =================================================================== state
VARIABLES
    \* SuperPalmTree (agent.py)
    user_request,      \* the request of the task being run
    current_plan,      \* self.current_plan: None or Some(TaskPlan)
    agentPc,           \* "idle", "executing", "returned", "raised"
    stepIdx,           \* position of execute_plan's for loop in plan.steps
    success_count,     \* execute_plan's local counter
    planRet,           \* what execute_plan returned: None or Some(BOOLEAN)
    execLog,           \* indexes of plan.steps passed to execute_step, in order
    parseFailed,       \* the try block of the last create_plan raised
    \* the Prompt Bridge called on its own
    chatCall,          \* the last SuperPalmTree.chat call: None or Some([o, ret, raised, requests])
    managerCall,       \* the last OllamaManager.chat call, likewise
    \* CDPBrowser (browser_tool.py)
    handles,           \* [playwright, context, browser, page]: TRUE where the attribute is set
    is_headless,
    current_url,       \* self.current_url: None (the "" of __init__) or Some(url)
    element_refs,      \* self.element_refs
    ref_counter,       \* self._ref_counter
    loaded,            \* the host whose page the browser shows, "" for a blank page
    issued,            \* the refs the last snapshot() call issued, in issuance order
    lastOp,            \* the last driver call: [op, arg, started, ok, msg, ret, raised]
    pageCall,          \* the call on the page the last driver call made: None or Some([op, target])
    life,              \* "uninitialized"; "started" since a start succeeded; "stopped" since a stop returned
    refs_host,         \* the host whose page was loaded when element_refs was last rebuilt
    \* the supervisors (agent.py, main.py, runtime.py)
    supVariant,        \* which class the supervisor object is: "" before the first call
    supPc,             \* "idle", "polling", "downloading", "preparing", "done"
    process,           \* self.ollama_process / self.process / self.ollama_proc is set
    phase,             \* OllamaManager.phase
    progress,          \* OllamaManager.progress
    startRet,          \* what the start call returned: "none", "true", "false", "raised"
    firstProbe,        \* the first probe of the running/last start call: "none", "ok", "fail"
    binaryFound,       \* get_ollama_binary found a binary in the running/last start call
    launches,          \* processes launched by the running/last start call
    polls,             \* probes made by the polling loop of the running/last start call
    lastPollOk,        \* the last probe of the polling loop succeeded
    shutdown,          \* the last stop/cleanup call: None or Some([variant, had_process, wait_completes, signals])
    lastCall,          \* the manager call running or last made: "none", "start", "ensure_model"
    ensureRet,         \* what the ensure_model call returned: "none", "true", "false", "raised"
    \* the hardware profilers (agent.py, main.py)
    hw,                \* the last detect_hardware call: None or Some([variant, ram, model, context_size])
    \* the web API (main.py)
    attached,          \* APIHandler.ollama is set
    model_ready,       \* OllamaManager.model_ready
    apiCall,           \* the last POST /api/chat: None or Some([request, o, attached, ready, status, key, text, forwarded])
    \* main and run_interactive (agent.py)
    mainPc,            \* "init", "single_task", "loop", "exited"
    mode,              \* "" before main, "single" or "interactive"
    lastEvent,         \* what the last input() gave: "none", "line", "interrupt", "eof"
    lastInput,         \* the line the last input() returned
    inputTasks,        \* run_task calls made for the last input
    taskOutcome,       \* how the last run_task ended: "none", "ok", "raises", "interrupt"
    tasks_run,         \* run_task calls made so far
    loopEnd,           \* why the loop was left: "none", "exit_word", "interrupt"
    cleanups,          \* calls of agent.cleanup()
    exitKind           \* how main ended: "none", "return", "sysexit", "exception"

agentVars == <<user_request, current_plan, agentPc, stepIdx, success_count,
               planRet, execLog, parseFailed>>

bridgeVars == <<chatCall, managerCall>>

browserVars == <<handles, is_headless, current_url, element_refs, ref_counter,
                 loaded, issued, lastOp, pageCall, life, refs_host>>

supVars == <<supVariant, supPc, process, phase, progress, startRet, firstProbe,
             binaryFound, launches, polls, lastPollOk, shutdown, lastCall, ensureRet>>

hwVars == <<hw>>

apiVars == <<attached, model_ready, apiCall>>

loopVars == <<mainPc, mode, lastEvent, lastInput, inputTasks, taskOutcome, tasks_run,
              loopEnd, cleanups, exitKind>>

hostVars == <<hwVars, apiVars, loopVars>>

vars == <<agentVars, bridgeVars, browserVars, supVars, hostVars>>

AgentInit ==
    /\ user_request = ""
    /\ current_plan = None
    /\ agentPc = "idle"
    /\ stepIdx = 0
    /\ success_count = 0
    /\ planRet = None
    /\ execLog = <<>>
    /\ parseFailed = FALSE

BridgeInit ==
    /\ chatCall = None
    /\ managerCall = None

NoHandles == [playwright |-> FALSE, context |-> FALSE, browser |-> FALSE, page |-> FALSE]

AllHandles == [playwright |-> TRUE, context |-> TRUE, browser |-> TRUE, page |-> TRUE]

\* a driver call and what it returned; ret is the value returned
OpRecord(op, arg, started, ok, msg, ret) ==
    [op |-> op, arg |-> arg, started |-> started, ok |-> ok, msg |-> msg,
     ret |-> ret, raised |-> FALSE]

\* an automation call of op raised: rec is what the except block returns
Raises(op, call, rec) ==
    IF propagates(op, call) THEN [rec EXCEPT !.raised = TRUE, !.ret = "exception"] ELSE rec

\* page.goto(url), page.click(selector), page.fill(selector, text), ...:
\* calls on the page with a string (mouse.wheel: with a delta); no call is
\* made on a stored locator
PageCall(op, target) == [op |-> op, target |-> target, handle |-> NoLocator, delta |-> 0]

BrowserInit ==
    /\ handles = NoHandles
    /\ is_headless = TRUE
    /\ current_url = None
    /\ element_refs = {}
    /\ ref_counter = 0
    /\ loaded = ""
    /\ issued = <<>>
    /\ lastOp = OpRecord("init", <<>>, FALSE, TRUE, "", "None")
    /\ pageCall = None
    /\ life = "uninitialized"
    /\ refs_host = ""

SupervisorInit ==
    /\ supVariant = ""
    /\ supPc = "idle"
    /\ process = FALSE
    /\ phase = "starting"
    /\ progress = 0
    /\ startRet = "none"
    /\ firstProbe = "none"
    /\ binaryFound = FALSE
    /\ launches = 0
    /\ polls = 0
    /\ lastPollOk = FALSE
    /\ shutdown = None
    /\ lastCall = "none"
    /\ ensureRet = "none"

HardwareInit == hw = None

ApiInit ==
    /\ attached = FALSE
    /\ model_ready = FALSE
    /\ apiCall = None

MainInit ==
    /\ mainPc = "init"
    /\ mode = ""
    /\ lastEvent = "none"
    /\ lastInput = <<>>
    /\ inputTasks = 0
    /\ taskOutcome = "none"
    /\ tasks_run = 0
    /\ loopEnd = "none"
    /\ cleanups = 0
    /\ exitKind = "none"

Init ==
    /\ AgentInit /\ BridgeInit /\ BrowserInit /\ SupervisorInit /\ HardwareInit
    /\ ApiInit
    /\ MainInit

\* ------------------------------------------------------- agent.py actions
Plan == current_plan[1]

\* main in single command mode calls run_task once.  run_task up to the
\* first iteration of execute_plan: create_plan, the assignment of
\* self.current_plan, and execute_plan's initialisation
RunTask(req, o) ==
    /\ agentPc = "idle"
    /\ user_request' = req
    /\ LET r == chat(o)
       IN IF r.raised
          THEN /\ agentPc' = "raised"
               /\ UNCHANGED <<current_plan, parseFailed>>
          ELSE /\ current_plan' = Some(create_plan(req, r.ret))
               /\ parseFailed' = ParseFails(r.ret)
               /\ agentPc' = "executing"
    /\ stepIdx' = 1
    /\ success_count' = 0
    /\ planRet' = None
    /\ execLog' = <<>>
    /\ UNCHANGED <<bridgeVars, browserVars, supVars, hostVars>>

\* one iteration of execute_plan's loop: execute_step on plan.steps[stepIdx]
ExecutePlanStep(o) ==
    /\ agentPc = "executing"
    /\ stepIdx <= Len(Plan.steps)
    /\ LET r == chat(o)
           after == execute_step(Plan.steps[stepIdx], r.ret)
           ok == execute_step_returns(after)
       IN IF r.raised
          THEN /\ agentPc' = "raised"
               /\ UNCHANGED <<current_plan, stepIdx, success_count, execLog>>
          ELSE /\ current_plan' = Some([Plan EXCEPT !.steps[stepIdx] = after])
               /\ success_count' = count_after(success_count, ok)
               /\ execLog' = execLog \o iteration_runs(stepIdx, ok)
               /\ stepIdx' = stepIdx + 1
               /\ agentPc' = agentPc
    /\ UNCHANGED <<user_request, planRet, parseFailed>>
    /\ UNCHANGED <<bridgeVars, browserVars, supVars, hostVars>>

\* the loop is over: execute_plan (and run_task) return
ExecutePlanReturn ==
    /\ agentPc = "executing"
    /\ stepIdx > Len(Plan.steps)
    /\ planRet' = Some(execute_plan_returns(success_count, Len(Plan.steps)))
    /\ agentPc' = "returned"
    /\ UNCHANGED <<user_request, current_plan, stepIdx, success_count, execLog,
                   parseFailed>>
    /\ UNCHANGED <<bridgeVars, browserVars, supVars, hostVars>>

Next ==
    \/ /\ agentPc = "idle"
       /\ \E req \in Requests, o \in OutcomesOver({<<>>}) : RunTask(req, o)
    \/ /\ agentPc = "idle"
       /\ \E req \in Requests, pre \in Proses, open \in OpenFences,
             shape \in BodyShapes, d \in Docs, close \in CloseFences, post \in Proses :
              RunTask(req, Outcome("http", 200, "text",
                                   PlannerResponse(pre, open, shape, d, close, post)))
    \/ /\ agentPc = "executing"
       /\ \E o \in OutcomesOver(ExecutorResponses) : ExecutePlanStep(o)
    \/ ExecutePlanReturn

Spec == Init /\ [][Next]_vars

\* --------------------------------------------------- Prompt Bridge actions
CallRecord(o, r) ==
    [o |-> o, ret |-> r.ret, raised |-> r.raised, requests |-> r.requests]

\* SuperPalmTree.chat(prompt, system)
Chat(o) ==
    /\ chatCall' = Some(CallRecord(o, chat(o)))
    /\ UNCHANGED <<managerCall, agentVars, browserVars, supVars, hostVars>>

\* OllamaManager.chat(message)
ManagerChat(o) ==
    /\ managerCall' = Some(CallRecord(o, manager_chat(o)))
    /\ UNCHANGED <<chatCall, agentVars, browserVars, supVars, hostVars>>

BridgeNext ==
    \/ \E o \in OutcomesOver(ExecutorResponses) : Chat(o)
    \/ \E o \in OutcomesOver(ExecutorResponses) : ManagerChat(o)

BridgeSpec == Init /\ [][BridgeNext]_vars

\* -------------------------------------------------- browser_tool.py actions
\* CDPBrowser.start(headless); failAt names the call that raises
Start(headless, failAt) ==
    /\ is_headless' = IF failAt = "import" THEN is_headless ELSE headless
    /\ handles' =
           IF failAt \in {"import", "playwright"} THEN handles
           ELSE IF failAt = "launch" THEN [handles EXCEPT !.playwright = TRUE]
           ELSE IF failAt = "new_page"
                THEN [handles EXCEPT !.playwright = TRUE, !.context = TRUE]
                ELSE AllHandles
    /\ loaded' = IF failAt = "none" THEN "" ELSE loaded
    /\ lastOp' = IF failAt = "none"
                 THEN OpRecord("start", <<>>, handles.page, TRUE, "", "True")
                 ELSE Raises("start", failAt,
                             OpRecord("start", <<>>, handles.page, FALSE, "", "False"))
    /\ pageCall' = None
    /\ life' = IF failAt = "none" THEN "started" ELSE life
    /\ UNCHANGED <<current_url, element_refs, ref_counter, issued, refs_host>>
    /\ UNCHANGED <<agentVars, bridgeVars, supVars, hostVars>>

\* navigate that empties the ref table when the page changed
Navigate_invalidating(url, goto) ==
    /\ IF ~handles.page
       THEN /\ lastOp' = OpRecord("navigate", url, FALSE, FALSE, "Browser not started",
                                  "(False, msg)")
            /\ pageCall' = None
            /\ UNCHANGED <<current_url, loaded>>
       ELSE /\ pageCall' = Some(PageCall("goto", with_scheme(url)))
            /\ IF goto = "raises"
               THEN /\ lastOp' = Raises("navigate", "goto",
                                        OpRecord("navigate", url, TRUE, FALSE,
                                                 "Navigation failed", "(False, msg)"))
                    /\ UNCHANGED <<current_url, loaded>>
               ELSE /\ loaded' = HostOf(url)
                    /\ current_url' = Some(with_scheme(url))
                    /\ lastOp' = OpRecord("navigate", url, TRUE, TRUE,
                                          IF goto = "status" THEN "Navigated to (status)"
                                          ELSE "Navigated to",
                                          "(True, msg)")
    /\ element_refs' = IF handles.page /\ goto # "raises" THEN {} ELSE element_refs
    /\ ref_counter' = IF handles.page /\ goto # "raises" THEN 0 ELSE ref_counter
    /\ UNCHANGED <<handles, is_headless, issued, life, refs_host>>
    /\ UNCHANGED <<agentVars, bridgeVars, supVars, hostVars>>

\* CDPBrowser.navigate(url); goto is what page.goto does: it raises, or
\* returns an ok response, a response with another status, or None
Navigate(url, goto) ==
    /\ IF ~handles.page
       THEN /\ lastOp' = OpRecord("navigate", url, FALSE, FALSE, "Browser not started",
                                  "(False, msg)")
            /\ pageCall' = None
            /\ UNCHANGED <<current_url, loaded>>
       ELSE /\ pageCall' = Some(PageCall("goto", with_scheme(url)))
            /\ IF goto = "raises"
               THEN /\ lastOp' = Raises("navigate", "goto",
                                        OpRecord("navigate", url, TRUE, FALSE,
                                                 "Navigation failed", "(False, msg)"))
                    /\ UNCHANGED <<current_url, loaded>>
               ELSE /\ loaded' = HostOf(url)
                    /\ current_url' = Some(with_scheme(url))
                    /\ lastOp' = OpRecord("navigate", url, TRUE, TRUE,
                                          IF goto = "status" THEN "Navigated to (status)"
                                          ELSE "Navigated to",
                                          "(True, msg)")
    /\ UNCHANGED <<handles, is_headless, element_refs, ref_counter, issued, life,
                   refs_host>>
    /\ UNCHANGED <<agentVars, bridgeVars, supVars, hostVars>>

\* CDPBrowser.snapshot(); it raises after k refs were added, or adds them all
Snapshot(k, raises) ==
    /\ IF ~handles.page
       THEN /\ lastOp' = OpRecord("snapshot", <<>>, FALSE, FALSE,
                                  "[error] Browser not started", "[error]")
            /\ issued' = <<>>
            /\ pageCall' = None
            /\ UNCHANGED <<element_refs, ref_counter, refs_host>>
       ELSE LET cands == Candidates(loaded, PageOf(loaded))
                n == IF raises THEN k ELSE Len(cands)
            IN /\ n <= Len(cands)
               /\ LET d == AddRefs(ClearedRefs, cands, n)
                  IN /\ element_refs' = d.element_refs
                     /\ ref_counter' = d.ref_counter
                     /\ issued' = d.issued
               /\ refs_host' = loaded
               /\ pageCall' = Some(PageCall("get_by_role", <<>>))
               /\ lastOp' = IF raises
                            THEN Raises("snapshot", "get_by_role",
                                        OpRecord("snapshot", <<>>, TRUE, FALSE, "[error]",
                                                 "[error]"))
                            ELSE OpRecord("snapshot", <<>>, TRUE, TRUE, "[page]", "[page]")
    /\ UNCHANGED <<handles, is_headless, current_url, loaded, life>>
    /\ UNCHANGED <<agentVars, bridgeVars, supVars, hostVars>>

\* the body shared by click and type_text: resolve the argument, make the
\* page call, return whether it went through
Interact(op, pageOp, a, raises) ==
    IF ~handles.page
    THEN /\ lastOp' = OpRecord(op, a, FALSE, FALSE, "", "False")
         /\ pageCall' = None
    ELSE LET r == resolve(element_refs, a)
         IN IF ~r.go
            THEN /\ lastOp' = OpRecord(op, a, TRUE, FALSE, "", "False")
                 /\ pageCall' = None
            ELSE /\ pageCall' = Some(PageCall(pageOp, r.selector))
                 /\ lastOp' = IF raises
                              THEN Raises(op, pageOp, OpRecord(op, a, TRUE, FALSE, "", "False"))
                              ELSE OpRecord(op, a, TRUE, TRUE, "", "True")

\* CDPBrowser.click(ref_or_selector)
Click(a, raises) ==
    /\ Interact("click", "click", a, raises)
    /\ UNCHANGED <<handles, is_headless, current_url, element_refs, ref_counter,
                   loaded, issued, life, refs_host>>
    /\ UNCHANGED <<agentVars, bridgeVars, supVars, hostVars>>

\* CDPBrowser.type_text(ref_or_selector, text)
TypeText(a, raises) ==
    /\ Interact("type_text", "fill", a, raises)
    /\ UNCHANGED <<handles, is_headless, current_url, element_refs, ref_counter,
                   loaded, issued, life, refs_host>>
    /\ UNCHANGED <<agentVars, bridgeVars, supVars, hostVars>>

\* CDPBrowser.press(key)
Press(key, raises) ==
    /\ IF ~handles.page
       THEN /\ lastOp' = OpRecord("press", key, FALSE, FALSE, "", "False")
            /\ pageCall' = None
       ELSE /\ pageCall' = Some(PageCall("keyboard.press", key))
            /\ lastOp' = IF raises
                         THEN Raises("press", "keyboard.press",
                                     OpRecord("press", key, TRUE, FALSE, "", "False"))
                         ELSE OpRecord("press", key, TRUE, TRUE, "", "True")
    /\ UNCHANGED <<handles, is_headless, current_url, element_refs, ref_counter,
                   loaded, issued, life, refs_host>>
    /\ UNCHANGED <<agentVars, bridgeVars, supVars, hostVars>>

\* CDPBrowser.scroll(direction, amount): it returns None on every path
Scroll(direction, amount, raises) ==
    /\ IF ~handles.page
       THEN /\ lastOp' = OpRecord("scroll", <<direction>>, FALSE, FALSE, "", "None")
            /\ pageCall' = None
       ELSE /\ pageCall' = Some([PageCall("mouse.wheel", <<>>)
                                    EXCEPT !.delta = scroll_delta(direction, amount)])
            /\ lastOp' = IF raises
                         THEN Raises("scroll", "mouse.wheel",
                                     OpRecord("scroll", <<direction>>, TRUE, FALSE, "", "None"))
                         ELSE OpRecord("scroll", <<direction>>, TRUE, TRUE, "", "None")
    /\ UNCHANGED <<handles, is_headless, current_url, element_refs, ref_counter,
                   loaded, issued, life, refs_host>>
    /\ UNCHANGED <<agentVars, bridgeVars, supVars, hostVars>>

\* CDPBrowser.screenshot(path); path <<>> is None (or ""): the bytes are
\* returned, otherwise they are saved and None is returned
Screenshot(path, raises) ==
    /\ IF ~handles.page
       THEN /\ lastOp' = OpRecord("screenshot", path, FALSE, FALSE, "", "None")
            /\ pageCall' = None
       ELSE /\ pageCall' = Some(PageCall("screenshot", path))
            /\ lastOp' = IF raises
                         THEN Raises("screenshot", "screenshot",
                                     OpRecord("screenshot", path, TRUE, FALSE, "", "None"))
                         ELSE OpRecord("screenshot", path, TRUE, TRUE, "",
                                       IF path = <<>> THEN "bytes" ELSE "None")
    /\ UNCHANGED <<handles, is_headless, current_url, element_refs, ref_counter,
                   loaded, issued, life, refs_host>>
    /\ UNCHANGED <<agentVars, bridgeVars, supVars, hostVars>>

\* CDPBrowser.stop(); failAt names the handle whose close call raises
Stop(failAt) ==
    /\ failAt # "none" => handles[failAt]
    /\ IF failAt = "none"
       THEN /\ handles' = NoHandles
            /\ loaded' = ""
       ELSE UNCHANGED <<handles, loaded>>
    /\ lastOp' = IF failAt = "none"
                 THEN OpRecord("stop", <<>>, handles.page, TRUE, "", "None")
                 ELSE Raises("stop", failAt,
                             OpRecord("stop", <<>>, handles.page, FALSE, "", "None"))
    /\ pageCall' = None
    /\ life' = "stopped"
    /\ UNCHANGED <<is_headless, current_url, element_refs, ref_counter, issued, refs_host>>
    /\ UNCHANGED <<agentVars, bridgeVars, supVars, hostVars>>

BrowserNext ==
    \/ \E h \in BOOLEAN, f \in {"none", "import", "playwright", "launch", "new_page"} :
           Start(h, f)
    \/ \E u \in Urls, g \in {"ok", "status", "none", "raises"} : Navigate(u, g)
    \/ \E k \in SnapshotFailPoints : Snapshot(k, TRUE)
    \/ Snapshot(0, FALSE)
    \/ \E a \in Args, r \in BOOLEAN : Click(a, r)
    \/ \E a \in TypeArgs, r \in BOOLEAN : TypeText(a, r)
    \/ \E k \in PressKeys, r \in BOOLEAN : Press(k, r)
    \/ \E d \in Directions, n \in Amounts, r \in BOOLEAN : Scroll(d, n, r)
    \/ \E p \in ScreenshotPaths, r \in BOOLEAN : Screenshot(p, r)
    \/ \E f \in {"none", "page", "context", "browser", "playwright"} : Stop(f)

BrowserSpec == Init /\ [][BrowserNext]_vars

\* ------------------------------------------------------ supervisor actions
\* a start call up to its polling loop: the first probe, the search for the
\* bundled binary (manager), the launch
StartOllama(variant, reachable, binary, popen_raises) ==
    /\ supPc \in {"idle", "done"}
    /\ supVariant \in {"", variant}
    /\ supVariant' = variant
    /\ LET d == start_decision(variant, reachable, binary, popen_raises)
       IN /\ supPc' = d.pc
          /\ startRet' = d.ret
          /\ launches' = IF d.launched THEN 1 ELSE 0
          /\ process' = (process \/ d.launched)
          /\ IF variant = "manager"
             THEN phase' = d.phase /\ progress' = d.progress
             ELSE UNCHANGED <<phase, progress>>
    /\ firstProbe' = IF reachable THEN "ok" ELSE "fail"
    /\ binaryFound' = (variant = "manager" /\ ~reachable /\ binary)
    /\ polls' = 0
    /\ lastPollOk' = FALSE
    /\ lastCall' = "start"
    /\ UNCHANGED <<shutdown, ensureRet>>
    /\ UNCHANGED <<agentVars, bridgeVars, browserVars, hostVars>>

\* one iteration of the polling loop
Poll(reachable) ==
    /\ supPc = "polling"
    /\ polls < PollAttempts
    /\ polls' = polls + 1
    /\ lastPollOk' = reachable
    /\ IF reachable
       THEN /\ supPc' = "done"
            /\ startRet' = "true"
            /\ IF supVariant = "manager"
               THEN phase' = "ollama_ready" /\ progress' = 30
               ELSE UNCHANGED <<phase, progress>>
       ELSE UNCHANGED <<supPc, startRet, phase, progress>>
    /\ UNCHANGED <<supVariant, process, firstProbe, binaryFound, launches, shutdown,
                   lastCall, ensureRet>>
    /\ UNCHANGED <<agentVars, bridgeVars, browserVars, hostVars>>

\* the loop ran out: return False
PollExhausted ==
    /\ supPc = "polling"
    /\ polls = PollAttempts
    /\ supPc' = "done"
    /\ startRet' = "false"
    /\ IF supVariant = "manager"
       THEN phase' = "error" /\ progress' = 0
       ELSE UNCHANGED <<phase, progress>>
    /\ UNCHANGED <<supVariant, process, firstProbe, binaryFound, launches, polls,
                   lastPollOk, shutdown, lastCall, ensureRet>>
    /\ UNCHANGED <<agentVars, bridgeVars, browserVars, hostVars>>

\* OllamaManager.stop, SuperPalmTree.cleanup, Runtime.stop; wait_completes:
\* the process exits within the timeout of process.wait
Shutdown(variant, wait_completes) ==
    /\ supPc \in {"idle", "done"}
    /\ supVariant \in {"", variant}
    /\ shutdown' = Some([variant |-> variant, had_process |-> process,
                         wait_completes |-> wait_completes,
                         signals |-> shutdown_signals(variant, process, wait_completes)])
    /\ UNCHANGED <<supVariant, supPc, process, phase, progress, startRet, firstProbe,
                   binaryFound, launches, polls, lastPollOk, lastCall, ensureRet>>
    /\ UNCHANGED <<agentVars, bridgeVars, browserVars, hostVars>>

\* OllamaManager.ensure_model up to the download loop (model file missing)
\* or up to the write of the Modelfile (model file bundled)
EnsureModelBegin(file) ==
    /\ supPc \in {"idle", "done"}
    /\ supVariant \in {"", "manager"}
    /\ supVariant' = "manager"
    /\ lastCall' = "ensure_model"
    /\ IF file = "bundled"
       THEN /\ supPc' = "preparing"
            /\ phase' = "preparing_model"
            /\ progress' = prepare_progress(progress)
            /\ ensureRet' = "none"
       ELSE IF file = "missing"
            THEN /\ supPc' = "downloading"
                 /\ phase' = "downloading_model"
                 /\ progress' = 35
                 /\ ensureRet' = "none"
            ELSE /\ supPc' = "done"
                 /\ ensureRet' = "raised"
                 /\ UNCHANGED <<phase, progress>>
    /\ UNCHANGED <<process, startRet, firstProbe, binaryFound, launches, polls,
                   lastPollOk, shutdown>>
    /\ UNCHANGED <<agentVars, bridgeVars, browserVars, hostVars>>

\* one chunk of the download loop, with a Content-Length header
DownloadChunk(percent) ==
    /\ supPc = "downloading"
    /\ progress' = download_progress(percent)
    /\ UNCHANGED <<supVariant, supPc, process, phase, startRet, firstProbe, binaryFound,
                   launches, polls, lastPollOk, shutdown, lastCall, ensureRet>>
    /\ UNCHANGED <<agentVars, bridgeVars, browserVars, hostVars>>

\* _download_model returns: true after the last chunk (ensure_model goes on
\* to "preparing_model"), false from its except block (ensure_model
\* returns false)
DownloadEnds(ok) ==
    /\ supPc = "downloading"
    /\ IF ok
       THEN /\ supPc' = "preparing"
            /\ phase' = "preparing_model"
            /\ progress' = prepare_progress(90)
            /\ UNCHANGED ensureRet
       ELSE /\ supPc' = "done"
            /\ phase' = "error"
            /\ progress' = 0
            /\ ensureRet' = "false"
    /\ UNCHANGED <<supVariant, process, startRet, firstProbe, binaryFound, launches,
                   polls, lastPollOk, shutdown, lastCall>>
    /\ UNCHANGED <<agentVars, bridgeVars, browserVars, hostVars>>

\* ensure_model from the write of the Modelfile to its return
PrepareModel(outcome) ==
    /\ supPc = "preparing"
    /\ LET f == ensure_model_finish(outcome, phase, progress, model_ready)
       IN /\ ensureRet' = f.ret
          /\ phase' = f.phase
          /\ progress' = f.progress
          /\ model_ready' = f.model_ready
    /\ supPc' = "done"
    /\ UNCHANGED <<supVariant, process, startRet, firstProbe, binaryFound, launches,
                   polls, lastPollOk, shutdown, lastCall>>
    /\ UNCHANGED <<attached, apiCall>>
    /\ UNCHANGED <<agentVars, bridgeVars, browserVars, hwVars, loopVars>>

SupervisorNext ==
    \/ \E v \in Variants, r \in BOOLEAN, b \in BOOLEAN : StartOllama(v, r, b, FALSE)
    \/ \E v \in Variants, r \in BOOLEAN, b \in BOOLEAN : StartOllama(v, r, b, TRUE)
    \/ \E r \in BOOLEAN : Poll(r)
    \/ PollExhausted
    \/ \E v \in Variants, w \in BOOLEAN : Shutdown(v, w)

\* the server manager of the web UI alone: start and ensure_model calls
ManagerNext ==
    \/ \E r \in BOOLEAN, b \in BOOLEAN : StartOllama("manager", r, b, FALSE)
    \/ \E r \in BOOLEAN, b \in BOOLEAN : StartOllama("manager", r, b, TRUE)
    \/ \E r \in BOOLEAN : Poll(r)
    \/ PollExhausted
    \/ \E f \in ModelFiles : EnsureModelBegin(f)
    \/ \E pc \in Percents : DownloadChunk(pc)
    \/ \E ok \in BOOLEAN : DownloadEnds(ok)
    \/ \E out \in PrepareOutcomes : PrepareModel(out)

ManagerSpec == Init /\ [][ManagerNext]_vars

\* ------------------------------------------------ hardware profiler actions
\* detect_hardware() on a machine with the given RAM
DetectHardware(variant, total) ==
    /\ hw' = Some([variant |-> variant, ram |-> total,
                   model |-> detect_hardware(variant, total).model,
                   context_size |-> detect_hardware(variant, total).context_size])
    /\ UNCHANGED <<agentVars, bridgeVars, browserVars, supVars, apiVars, loopVars>>

HardwareNext == \E v \in Profilers, t \in RamTotals : DetectHardware(v, t)

HardwareSpec == Init /\ [][HardwareNext]_vars

\* ------------------------------------------------------- web API actions
\* main: APIHandler.ollama = ollama
Attach ==
    /\ ~attached
    /\ attached' = TRUE
    /\ UNCHANGED <<model_ready, apiCall>>
    /\ UNCHANGED <<agentVars, bridgeVars, browserVars, supVars, hwVars, loopVars>>

\* APIHandler.handle_chat for one request
HandleChat(request, o) ==
    /\ LET r == handle_chat(request, attached, model_ready, o)
       IN apiCall' = Some([request |-> request, o |-> o, attached |-> attached,
                           ready |-> model_ready, status |-> r.status, key |-> r.key,
                           text |-> r.text, forwarded |-> r.forwarded])
    /\ UNCHANGED <<attached, model_ready>>
    /\ UNCHANGED <<agentVars, bridgeVars, browserVars, supVars, hwVars, loopVars>>

ApiNext ==
    \/ Attach
    \/ \E f \in ModelFiles : EnsureModelBegin(f)
    \/ \E pc \in Percents : DownloadChunk(pc)
    \/ \E ok \in BOOLEAN : DownloadEnds(ok)
    \/ \E out \in PrepareOutcomes : PrepareModel(out)
    \/ \E q \in ChatRequests, o \in OutcomesOver(ExecutorResponses) : HandleChat(q, o)

ApiSpec == Init /\ [][ApiNext]_vars

\* ------------------------------------------------- main / run_interactive
\* main leaves its try block: the finally clause calls agent.cleanup()
MainExits(kind) ==
    /\ mainPc' = "exited"
    /\ cleanups' = cleanups + 1
    /\ exitKind' = kind

\* main up to the first run_task or input(): detect_hardware, start_ollama
\* (it returns true or false, or raises), pull_model (its result is only
\* printed; it may raise)
MainStart(m, started, pull) ==
    /\ mainPc = "init"
    /\ mode' = m
    /\ IF started = "raised" \/ (started = "true" /\ pull = "raised")
       THEN MainExits("exception")
       ELSE IF started = "false"
            THEN MainExits(IF m = "single" THEN "sysexit" ELSE "return")
            ELSE /\ mainPc' = IF m = "single" THEN "single_task" ELSE "loop"
                 /\ UNCHANGED <<cleanups, exitKind>>
    /\ UNCHANGED <<lastEvent, lastInput, inputTasks, taskOutcome, tasks_run, loopEnd>>
    /\ UNCHANGED <<agentVars, bridgeVars, browserVars, supVars, hwVars, apiVars>>

\* single command mode: agent.run_task(command), then the finally clause
SingleTask(outcome) ==
    /\ mainPc = "single_task"
    /\ tasks_run' = tasks_run + 1
    /\ taskOutcome' = outcome
    /\ MainExits(IF outcome = "ok" THEN "return" ELSE "exception")
    /\ UNCHANGED <<mode, lastEvent, lastInput, inputTasks, loopEnd>>
    /\ UNCHANGED <<agentVars, bridgeVars, browserVars, supVars, hwVars, apiVars>>

\* one iteration of the loop in which input() returns a line; outcome is
\* how run_task ends when the line is a task
ReadLine(line, outcome) ==
    /\ mainPc = "loop"
    /\ lastEvent' = "line"
    /\ lastInput' = line
    /\ LET what == loop_decision(line)
       IN IF what = "continue"
          THEN /\ inputTasks' = 0
               /\ UNCHANGED <<mainPc, taskOutcome, tasks_run, loopEnd, cleanups, exitKind>>
          ELSE IF what = "break"
               THEN /\ inputTasks' = 0
                    /\ loopEnd' = "exit_word"
                    /\ MainExits("return")
                    /\ UNCHANGED <<taskOutcome, tasks_run>>
               ELSE /\ tasks_run < MaxTasks
                    /\ inputTasks' = 1
                    /\ tasks_run' = tasks_run + 1
                    /\ taskOutcome' = outcome
                    /\ IF outcome = "interrupt"
                       THEN loopEnd' = "interrupt" /\ MainExits("return")
                       ELSE UNCHANGED <<mainPc, loopEnd, cleanups, exitKind>>
    /\ UNCHANGED mode
    /\ UNCHANGED <<agentVars, bridgeVars, browserVars, supVars, hwVars, apiVars>>

\* one iteration in which input() raises: KeyboardInterrupt leaves the
\* loop, EOFError is caught by except Exception and the loop goes on
ReadFails(event) ==
    /\ mainPc = "loop"
    /\ lastEvent' = event
    /\ lastInput' = <<>>
    /\ inputTasks' = 0
    /\ IF event = "interrupt"
       THEN loopEnd' = "interrupt" /\ MainExits("return")
       ELSE UNCHANGED <<mainPc, loopEnd, cleanups, exitKind>>
    /\ UNCHANGED <<mode, taskOutcome, tasks_run>>
    /\ UNCHANGED <<agentVars, bridgeVars, browserVars, supVars, hwVars, apiVars>>

MainNext ==
    \/ \E m \in {"single", "interactive"}, st \in {"true", "false", "raised"},
          pl \in {"ok", "failed", "raised"} : MainStart(m, st, pl)
    \/ \E out \in {"ok", "raises", "interrupt"} : SingleTask(out)
    \/ \E l \in Lines, out \in {"ok", "raises", "interrupt"} : ReadLine(l, out)
    \/ \E ev \in {"interrupt", "eof"} : ReadFails(ev)

MainSpec == Init /\ [][MainNext]_vars

\* every iteration of the polling loop is a probe with a timeout and a
\* one-second sleep, so a running loop always takes its next step
SupervisorSpec ==
    Init /\ [][SupervisorNext]_vars /\ WF_vars((\E r \in BOOLEAN : Poll(r)) \/ PollExhausted)

\* ================================================================== claims
StepsOf == IF current_plan = None THEN <<>> ELSE Plan.steps

\* C1: whatever text the model returned, the plan create_plan returns holds
\* at least one step.
C1_PlanHasAStep ==
    current_plan # None => Len(Plan.steps) >= 1

\* C2: execute_plan returns true only when every step of the plan is
\* "completed" after it finishes; when a step ended "failed", the success
\* count is below the number of steps and it returns false.
C2_TrueOnlyWhenAllCompleted ==
    /\ planRet = Some(TRUE) =>
           \A i \in 1..Len(StepsOf) : StepsOf[i].status = "completed"
    /\ (agentPc = "returned" /\ \E i \in 1..Len(StepsOf) : StepsOf[i].status = "failed") =>
           /\ success_count < Len(StepsOf)
           /\ planRet = Some(FALSE)

C2_Witness ==
    /\ agentPc = "returned"
    /\ \E i, j \in 1..Len(StepsOf) :
           StepsOf[i].status = "failed" /\ StepsOf[j].status = "completed"

\* C7: execute_plan passes every step of plan.steps to execute_step exactly
\* once, in list order, whatever the earlier steps' outcomes; nothing else
\* is executed.
C7_EveryStepOnceInOrder ==
    /\ agentPc = "executing" => execLog = [i \in 1..(stepIdx - 1) |-> i]
    /\ agentPc = "returned" => execLog = [i \in 1..Len(StepsOf) |-> i]

C7_Witness ==
    /\ agentPc = "returned"
    /\ Len(StepsOf) >= 2
    /\ StepsOf[1].status = "failed"
    /\ StepsOf[2].status = "completed"

CallIsAbsorbed(c) ==
    /\ ~c.raised
    /\ c.requests = 1
    /\ CallFailed(c.o) => StartsWithError(c.ret)

RECURSIVE DecimalValue(_)
DecimalValue(s) ==
    IF Len(s) = 0 THEN 0
    ELSE 10 * DecimalValue(SubSeq(s, 1, Len(s) - 1))
         + (CHOOSE d \in 0..9 : Digits[d + 1] = s[Len(s)])

DigitChars == {"0", "1", "2", "3", "4", "5", "6", "7", "8", "9"}

\* "e" followed by one or more decimal digits
EDigits(a) == Len(a) >= 2 /\ a[1] = "e" /\ \A i \in 2..Len(a) : a[i] \in DigitChars

\* the refs are "e1", "e2", ... in issuance order, pairwise distinct, and
\* they are the keys of the ref table
IssuedRefsAreTheTable ==
    /\ \A i \in 1..Len(issued) :
           /\ EDigits(issued[i])
           /\ issued[i][2] # "0"
           /\ DecimalValue(Tail(issued[i])) = i
    /\ \A i, j \in 1..Len(issued) : i # j => issued[i] # issued[j]
    /\ Keys(element_refs) = Range(issued)

\* C3 (as stated): after any snapshot() call the refs it issued are e1, e2,
\* ... in order, pairwise distinct, and the ref table holds exactly them.
C3_AnySnapshotLeavesItsRefs ==
    lastOp.op = "snapshot" => IssuedRefsAreTheTable

\* C3 (amended): after a snapshot() call made while the browser is started
\* (self.page set), the refs it issued are e1, e2, ... in order, pairwise
\* distinct, and the ref table holds exactly them.
C3_StartedSnapshotLeavesItsRefs ==
    (lastOp.op = "snapshot" /\ lastOp.started) =>
        /\ IssuedRefsAreTheTable
        /\ ref_counter = Len(issued)

C3_Witness ==
    /\ lastOp.op = "snapshot"
    /\ lastOp.started
    /\ lastOp.ok
    /\ Len(issued) >= 10

InteractionOps == {"click", "type_text"}

\* C4: click/type_text with a ref of the current table hands the page call
\* the non-empty selector, or the live handle, recorded for that ref.
C4_RefReachesItsElement ==
    (lastOp.op \in InteractionOps /\ lastOp.started /\ lastOp.arg \in Keys(element_refs)) =>
        /\ pageCall # None
        /\ \/ /\ pageCall[1].target # <<>>
              /\ pageCall[1].target = Get(element_refs, lastOp.arg).selector
           \/ /\ pageCall[1].handle # NoLocator
              /\ pageCall[1].handle = Get(element_refs, lastOp.arg).locator

IsLoginWall(page) == page.loginText /\ page.passwordInput

\* C5: a navigate that loaded a login wall reports "LOGIN_REQUIRED", not
\* the generic success result.
C5_LoginWallReported ==
    (lastOp.op = "navigate" /\ lastOp.ok /\ IsLoginWall(PageOf(loaded))) =>
        lastOp.msg = "LOGIN_REQUIRED"

\* C6 (as stated): a key of the ref table is resolved to its entry, every
\* other argument is passed to the page call as a literal selector.
C6_UnknownArgIsLiteral ==
    (lastOp.op \in InteractionOps /\ lastOp.started) =>
        /\ pageCall # None
        /\ pageCall[1].target =
              IF lastOp.arg \in Keys(element_refs)
              THEN Get(element_refs, lastOp.arg).selector
              ELSE lastOp.arg

\* C6 (amended): a key of the ref table is resolved to the selector field
\* of its entry; an argument of the form e<digits> that is no key makes the
\* method return False without a page call; every other argument is passed
\* to the page call as a literal selector.
C6_UnknownRefRejected ==
    (lastOp.op \in InteractionOps /\ lastOp.started) =>
        IF lastOp.arg \in Keys(element_refs)
        THEN /\ pageCall # None
             /\ pageCall[1].target = Get(element_refs, lastOp.arg).selector
        ELSE IF EDigits(lastOp.arg)
             THEN pageCall = None /\ ~lastOp.ok
             ELSE /\ pageCall # None
                  /\ pageCall[1].target = lastOp.arg
                  /\ pageCall[1].op = IF lastOp.op = "click" THEN "click" ELSE "fill"

C6_Witness ==
    /\ lastOp.op = "click"
    /\ lastOp.started
    /\ element_refs # {}
    /\ EDigits(lastOp.arg)
    /\ lastOp.arg \notin Keys(element_refs)
    /\ pageCall = None

StartOutcome ==
    \/ /\ firstProbe = "ok"
       /\ startRet = "true" /\ launches = 0 /\ polls = 0
    \/ /\ firstProbe = "fail" /\ supVariant = "manager" /\ ~binaryFound
       /\ startRet = "false" /\ launches = 0 /\ polls = 0
    \/ /\ firstProbe = "fail" /\ launches = 0 /\ polls = 0
       /\ startRet = IF supVariant = "manager" THEN "false" ELSE "raised"
    \/ /\ firstProbe = "fail" /\ launches = 1 /\ polls \in 1..30
       /\ \/ startRet = "true" /\ lastPollOk
          \/ startRet = "false" /\ ~lastPollOk /\ polls = 30

LaunchFailed ==
    /\ supPc = "done"
    /\ firstProbe = "fail"
    /\ launches = 0
    /\ supVariant = "manager" => binaryFound

\* C11: when launching the server process raises, the start operation
\* returns false and raises nothing, in each of the three variants.
C11_LaunchFailureReturnsFalse ==
    LaunchFailed => startRet = "false"

\* the operations of the driver and the value each returns on failure
DriverOps ==
    {"start", "navigate", "snapshot", "click", "type_text", "press", "scroll",
     "screenshot", "stop"}

FailureValue(op) ==
    IF op \in {"start", "click", "type_text", "press"} THEN "False"
    ELSE IF op = "navigate" THEN "(False, msg)"
    ELSE IF op = "snapshot" THEN "[error]"
    ELSE "None"

\* C12: no driver operation raises to its caller, whatever the driver's
\* state and whichever automation call fails; a failed operation returns
\* its failure value.
C12_NoOperationRaises ==
    lastOp.op \in DriverOps =>
        /\ ~lastOp.raised
        /\ ~lastOp.ok => lastOp.ret = FailureValue(lastOp.op)

C12_Witness ==
    /\ lastOp.op = "scroll"
    /\ lastOp.started
    /\ ~lastOp.ok
    /\ pageCall # None
    /\ life = "started"

\* the operations that act on the page
PageOps == {"navigate", "snapshot", "click", "type_text", "press", "scroll", "screenshot"}

\* C13: while the driver is uninitialized (no start succeeded) or stopped (a
\* stop returned), each operation on the page returns its failure value
\* (navigate: "Browser not started") and makes no call to the browser.
C13_NoCallUnlessStarted ==
    (lastOp.op \in PageOps /\ life \in {"uninitialized", "stopped"}) =>
        /\ pageCall = None
        /\ ~lastOp.ok
        /\ lastOp.ret = FailureValue(lastOp.op)
        /\ lastOp.op = "navigate" => lastOp.msg = "Browser not started"

\* the URL begins with "http://" or "https://"
BeginsWithScheme(url) ==
    \E p \in {Http, Https} :
        Len(url) >= Len(p) /\ \A i \in 1..Len(p) : url[i] = p[i]

\* C14: navigate dispatches "https://" followed by the URL when the URL does
\* not begin with "http://" or "https://", and the URL unchanged when it does.
C14_SchemePrefixed ==
    (lastOp.op = "navigate" /\ lastOp.started) =>
        /\ pageCall # None
        /\ pageCall[1].op = "goto"
        /\ pageCall[1].target =
              IF BeginsWithScheme(lastOp.arg) THEN lastOp.arg ELSE Https \o lastOp.arg

C14_Witness ==
    /\ lastOp.op = "navigate"
    /\ lastOp.started
    /\ lastOp.ok
    /\ ~BeginsWithScheme(lastOp.arg)
    /\ Len(lastOp.arg) > 1

\* the steps execute_step has returned for
Executed == IF agentPc \in {"executing", "returned"} THEN 1..(stepIdx - 1) ELSE {}

\* the literal "SUCCESS" occurs in the text
HasSuccess(text) == \E i \in 1..Len(text) : text[i].k \in {"SUCCESS", "UNSUCCESSFUL"}

\* C15: after execute_step(step) the step is "completed" exactly when the
\* text the bridge returned contains "SUCCESS" and "failed" otherwise (an
\* "Error:" text included), never "pending"; it returns true exactly when
\* the step is "completed" (execute_plan counts the true returns).
C15_StatusFromSuccessSubstring ==
    /\ \A i \in Executed :
           /\ StepsOf[i].result # None
           /\ StepsOf[i].status = IF HasSuccess(StepsOf[i].result[1])
                                  THEN "completed" ELSE "failed"
    /\ agentPc \in {"executing", "returned"} =>
           success_count = Cardinality({i \in Executed : StepsOf[i].status = "completed"})

C15_Witness ==
    /\ agentPc = "returned"
    /\ \E i, j \in Executed :
           /\ StepsOf[i].result = Some(ErrorText)
           /\ StepsOf[i].status = "failed"
           /\ StepsOf[j].result = Some(<<Tok("UNSUCCESSFUL")>>)
           /\ StepsOf[j].status = "completed"

\* the RAM of the last detect_hardware call is at least n GiB
RamAtLeast(n) == hw[1].ram >= n * RamUnitsPerGB

C17_TerminateWaitKill ==
    shutdown # None =>
        LET s == shutdown[1]
        IN IF s.had_process
           THEN s.signals = IF s.wait_completes THEN <<"terminate", "wait">>
                            ELSE <<"terminate", "wait", "kill">>
           ELSE s.signals = <<>>

\* the last POST /api/chat was answered {"response": "Error: Model not ready"}
AnsweredNotReady ==
    /\ apiCall[1].status = 200
    /\ apiCall[1].key = "response"
    /\ apiCall[1].text = NotReadyText

\* C18 (as stated): a POST /api/chat is forwarded only when model_ready is
\* true; when it is false or no manager is attached the model server is not
\* contacted and the reply is {response: "Error: Model not ready"}; every
\* request is answered with a JSON object carrying response or error.
C18_ForwardedOnlyWhenReady ==
    apiCall # None =>
        /\ apiCall[1].forwarded => (apiCall[1].attached /\ apiCall[1].ready)
        /\ ~(apiCall[1].attached /\ apiCall[1].ready) =>
               (~apiCall[1].forwarded /\ AnsweredNotReady)
        /\ apiCall[1].key \in {"response", "error"}

\* C18 (amended): a request whose body cannot be read (no Content-Length, no
\* JSON, no JSON object) is answered {error} with status 500 and is not
\* forwarded, whatever the flag; any other request is forwarded exactly when
\* a manager is attached and model_ready is true and is otherwise answered
\* {response: "Error: Model not ready"}; every reply carries response or error.
C18_ReadableForwardedOnlyWhenReady ==
    apiCall # None =>
        /\ apiCall[1].forwarded => (apiCall[1].attached /\ apiCall[1].ready)
        /\ apiCall[1].request \in {"no_length", "bad_json", "non_object"} =>
               /\ ~apiCall[1].forwarded
               /\ apiCall[1].status = 500
               /\ apiCall[1].key = "error"
        /\ apiCall[1].request \in {"message", "no_message"} =>
               /\ apiCall[1].forwarded = (apiCall[1].attached /\ apiCall[1].ready)
               /\ apiCall[1].key = "response"
               /\ ~apiCall[1].forwarded => AnsweredNotReady
        /\ apiCall[1].key \in {"response", "error"}

C18_Witness ==
    /\ apiCall # None
    /\ apiCall[1].request = "message"
    /\ apiCall[1].attached
    /\ ~apiCall[1].ready
    /\ ~apiCall[1].forwarded
    /\ AnsweredNotReady

\* the last call was click or type_text with a ref of the table, made after
\* the page the table was built from was left
StaleRefUsed ==
    /\ lastOp.op \in InteractionOps
    /\ lastOp.started
    /\ lastOp.arg \in Keys(element_refs)
    /\ refs_host # loaded

\* C19: navigate leaves the ref table and the ref counter unchanged; a click
\* or type_text with a ref of an earlier snapshot, made after a navigate, is
\* resolved against its old entry and not rejected; only snapshot() replaces
\* the table.
C19_NavigateKeepsRefs ==
    /\ [][lastOp'.op = "navigate" =>
              (element_refs' = element_refs /\ ref_counter' = ref_counter)]_vars
    /\ [][element_refs' # element_refs => lastOp'.op = "snapshot"]_vars
    /\ [](StaleRefUsed =>
              /\ pageCall # None
              /\ pageCall[1].target = Get(element_refs, lastOp.arg).selector)

C19_Witness ==
    /\ StaleRefUsed
    /\ lastOp.op = "click"
    /\ lastOp.ok
    /\ refs_host = "list.example.com"
    /\ loaded = "example.com"
    /\ current_url = Some(Https \o <<"example.com">>)
    /\ pageCall # None

\* a and b are the same word when case is ignored
SameIgnoringCase(a, b) ==
    /\ Len(a) = Len(b)
    /\ \A i \in 1..Len(a) :
           \/ a[i] = b[i]
           \/ <<a[i], b[i]>> \in {<<"E", "e">>, <<"X", "x">>, <<"I", "i">>, <<"T", "t">>,
                                  <<"Q", "q">>, <<"U", "u">>}

\* the line without the blanks around it
Trimmed(line) ==
    IF \A i \in 1..Len(line) : line[i] = " " THEN <<>>
    ELSE LET nonblank == {i \in 1..Len(line) : line[i] # " "}
             lo == CHOOSE i \in nonblank : \A j \in nonblank : i <= j
             hi == CHOOSE i \in nonblank : \A j \in nonblank : i >= j
         IN [i \in 1..(hi - lo + 1) |-> line[lo + i - 1]]

\* the line, trimmed and without regard to case, is exit, quit or q
IsExitLine(line) ==
    \E w \in {<<"e", "x", "i", "t">>, <<"q", "u", "i", "t">>, <<"q">>} :
        SameIgnoringCase(Trimmed(line), w)

Interrupted == lastEvent = "interrupt" \/ (lastEvent = "line" /\ taskOutcome = "interrupt")

\* C20: the interactive loop ends exactly when the trimmed input is exit,
\* quit or q in any case, or on a keyboard interrupt; empty input runs no
\* task and any other input runs one; an exception raised by a task does not
\* end the loop; every exit path of main calls cleanup.
C20_LoopEndsOnExitOnly ==
    /\ (mainPc = "loop" /\ lastEvent = "line") => ~IsExitLine(lastInput)
    /\ loopEnd # "none" =>
           \/ lastEvent = "line" /\ IsExitLine(lastInput) /\ loopEnd = "exit_word"
           \/ Interrupted /\ loopEnd = "interrupt"
    /\ (mode = "interactive" /\ mainPc = "exited" /\ lastEvent # "none") => loopEnd # "none"
    /\ lastEvent = "line" =>
           inputTasks = IF Trimmed(lastInput) = <<>> \/ IsExitLine(lastInput) THEN 0 ELSE 1
    /\ lastEvent \in {"interrupt", "eof"} => inputTasks = 0
    /\ (mode = "interactive" /\ lastEvent = "line" /\ inputTasks = 1
        /\ taskOutcome = "raises") => mainPc = "loop"
    /\ (lastEvent = "eof") => mainPc = "loop"
    /\ cleanups = IF mainPc = "exited" THEN 1 ELSE 0

C20_Witness ==
    /\ mode = "interactive"
    /\ mainPc = "exited"
    /\ loopEnd = "exit_word"
    /\ lastInput = <<" ", "E", "x", "i", "t", " ">>
    /\ taskOutcome = "raises"
    /\ tasks_run = 2
    /\ cleanups = 1

\* ---------------------------------------------------------------- C21
StepStatuses == {"pending", "completed", "failed"}

\* the steps execute_plan has not passed to execute_step yet
Unexecuted == {i \in 1..Len(StepsOf) : agentPc = "executing" /\ i >= stepIdx}

Untouched(step) ==
    /\ step.status = "pending"
    /\ step.result = None
    /\ step.started_at = None
    /\ step.completed_at = None

\* C21: every step of the plan create_plan returned, whatever JSON the model
\* returned, is "pending" with no result and no timestamps until
\* execute_step is called on it; a step's status is always one of pending,
\* completed, failed; and the steps of the current plan are changed only by
\* execute_step, one step (the one being executed) at a time.
C21_StepsPendingUntilExecuted ==
    /\ [](\A i \in Unexecuted : Untouched(StepsOf[i]))
    /\ [](\A i \in 1..Len(StepsOf) : StepsOf[i].status \in StepStatuses)
    /\ [][(current_plan # None /\ current_plan' # current_plan) =>
              /\ agentPc = "executing"
              /\ current_plan' # None
              /\ Len(current_plan'[1].steps) = Len(StepsOf)
              /\ \A i \in 1..Len(StepsOf) :
                     i # stepIdx => current_plan'[1].steps[i] = StepsOf[i]]_vars

\* ---------------------------------------------------------------- C22
\* the manager's last call (start or ensure_model) returned false
ReturnedFalse ==
    /\ supVariant = "manager"
    /\ supPc = "done"
    /\ \/ lastCall = "start" /\ startRet = "false"
       \/ lastCall = "ensure_model" /\ ensureRet = "false"

\* C22: for the web-UI server manager, after any sequence of start and
\* ensure_model calls, a call that returned false has left phase = "error"
\* and progress = 0; model_ready is true only with phase = "ready" and
\* progress = 100; and progress is within 0..100.
C22_ManagerStatusConsistent ==
    /\ ReturnedFalse => (phase = "error" /\ progress = 0)
    /\ model_ready => (phase = "ready" /\ progress = 100)
    /\ progress \in 0..100

\* ---------------------------------------------------------------- C23
\* C23: when stop() has returned, the page, context, browser and playwright
\* handles are all cleared, also when one of the close calls failed; and no
\* operation on a stopped driver makes a call to the browser.
C23_StopClearsHandles ==
    /\ lastOp.op = "stop" => handles = NoHandles
    /\ (life = "stopped" /\ lastOp.op \in PageOps) => pageCall = None

====
